---- MODULE Spec2Model ----
(***************************************************************************)
(* Model of the debug-metrics event-recording engine                       *)
(* (src/src/debug_metrics.rs): the value store, the rule table, the event  *)
(* log, the query events_for_key and the Drop-Flush.                       *)
(*                                                                         *)
(* A map (BTreeMap<String, _>) is a function whose DOMAIN is the set of    *)
(* keys present.  An Option<EventType> is a sequence of length 0 or 1.     *)
(* trace is a history variable: the calls made so far, in order.           *)
(***************************************************************************)
EXTENDS Integers, Sequences, FiniteSets, TLC

VARIABLES config, rules, counts, labels, events, drop_print,
          output, flushed, alive, ret, trace,
          debug_assertions, panicked,
          owner, flushes, last, hook, twin, lib,
          shared, handles, lock, poisoned, pc, cur, aborted

\* debug_assertions: the build has cfg(debug_assertions) (fixed for a run).
\* panicked: a call on the engine unwound from a failed unwrap().
\* owner[i]: the position in trace of the call that appended events[i].
\* flushes: how often the Drop-Flush has run.
\* last: what went out of scope when it ran (the owner's engine, a handle,
\* the handle a hook holds).
\* hook: per thread, its scoped hook (DropHook / DropHookSafe).
\* twin: a second engine, driven in step with the first under SpecTwin.
\* lib: the cloneable DebugMetrics of src/src/lib.rs, its handles, its stdout.
\* shared .. aborted: the Arc<Mutex<_>> of DebugMetricsSafe and its threads.
engineVars == <<config, rules, counts, labels, events, drop_print,
                output, flushed, alive, ret, trace, debug_assertions, panicked,
                owner, flushes, last>>

safeVars == <<shared, handles, lock, poisoned, pc, cur, aborted>>

vars == <<engineVars, hook, twin, lib, safeVars>>

(***************************************************************************)
(* Bounds of the model.                                                    *)
(***************************************************************************)
\* calls made on one engine under Spec
MaxOps == 2
\* calls made on one engine under SpecDeep
MaxOpsDeep == 4
\* entries in the label list of one inc / set call
MaxLabels == 2
\* Calls in a row when a rule may hold a pattern that does not parse.
MaxOpsFault == 3
\* Calls in a row made on two engines in step.
MaxOpsTwin == 4
\* Calls made on an engine that becomes shared (those of hooks not counted).
MaxSafeOps == 3
\* Calls the threads make under a fair scheduler (those of hooks not counted).
MaxFairOps == 2
\* Calls, clones and drops on the DebugMetrics of lib.rs.
MaxOpsLib == 7

(***************************************************************************)
(* Maps.                                                                   *)
(***************************************************************************)
EmptyMap == [k \in {} |-> 0]

Insert(m, k, v) == [x \in (DOMAIN m) \cup {k} |-> IF x = k THEN v ELSE m[x]]

\* All strings of the model in the order of String's Ord (byte-wise), the
\* iteration order of BTreeMap / BTreeSet.
SortedStrings == <<"", "(", ".+", "^s", "env", "metric", "other", "stage">>

\* The elements of the set s in BTree iteration order.
Iter(s) == SelectSeq(SortedStrings, LAMBDA x : x \in s)

\* The characters of a key.
Chars(k) ==
    CASE k = ""       -> <<>>
      [] k = "env"    -> <<"e", "n", "v">>
      [] k = "metric" -> <<"m", "e", "t", "r", "i", "c">>
      [] k = "other"  -> <<"o", "t", "h", "e", "r">>
      [] k = "stage"  -> <<"s", "t", "a", "g", "e">>

(***************************************************************************)
(* The regex facility, as far as the patterns of the model use it.  A      *)
(* compiled pattern is [start |-> anchored at the start, atoms |-> a       *)
(* sequence of [ch |-> a character or "any", plus |-> repeated]].  ok is    *)
(* FALSE for the Err of a pattern that does not parse (an unclosed group). *)
(***************************************************************************)
Regex_new(patt) ==
    CASE patt = ".+" -> [ok |-> TRUE, start |-> FALSE,
                         atoms |-> <<[ch |-> "any", plus |-> TRUE]>>]
      [] patt = "^s" -> [ok |-> TRUE, start |-> TRUE,
                         atoms |-> <<[ch |-> "s", plus |-> FALSE]>>]
      [] patt = "("  -> [ok |-> FALSE]

RECURSIVE MatchHere(_, _)
MatchHere(atoms, s) ==
    IF atoms = <<>> THEN TRUE
    ELSE IF s = <<>> THEN FALSE
    ELSE LET a == Head(atoms) IN
         IF ~(a.ch = "any" \/ a.ch = Head(s)) THEN FALSE
         ELSE \/ MatchHere(Tail(atoms), Tail(s))
              \/ (a.plus /\ MatchHere(atoms, Tail(s)))

is_match(re, k) ==
    LET s == Chars(k) IN
    IF re.start THEN MatchHere(re.atoms, s)
    ELSE \E i \in 1..(Len(s) + 1) : MatchHere(re.atoms, SubSeq(s, i, Len(s)))

(***************************************************************************)
(* EventType and the configuration.                                        *)
(***************************************************************************)
MetricChange(metric, count, dependencies, lbls) ==
    [type |-> "MetricChange", metric |-> metric, count |-> count,
     dependencies |-> dependencies, labels |-> lbls]

LabelChange(label, value, dependencies, lbls) ==
    [type |-> "LabelChange", label |-> label, value |-> value,
     dependencies |-> dependencies, labels |-> lbls]

CascadeMetricChange(cause, metric, count, dependencies, lbls) ==
    [type |-> "CascadeMetricChange", cause |-> cause, metric |-> metric,
     count |-> count, dependencies |-> dependencies, labels |-> lbls]

CascadeLabelChange(cause, label, value, dependencies, lbls) ==
    [type |-> "CascadeLabelChange", cause |-> cause, label |-> label,
     value |-> value, dependencies |-> dependencies, labels |-> lbls]

DebugMetricsConfig ==
    [process_all_events : BOOLEAN, record_label_changes : BOOLEAN,
     all_labels_every_event : BOOLEAN]

ConfigDefault ==
    [process_all_events |-> FALSE, record_label_changes |-> FALSE,
     all_labels_every_event |-> FALSE]

ConfigDefaultOn ==
    [process_all_events |-> TRUE, record_label_changes |-> TRUE,
     all_labels_every_event |-> TRUE]

promote_to_cascade_kept(e, cause) == e

promote_to_cascade(e, cause) ==
    CASE e.type = "MetricChange" ->
            CascadeMetricChange(cause, e.metric, e.count, e.dependencies, e.labels)
      [] e.type = "LabelChange" ->
            CascadeLabelChange(cause, e.label, e.value, e.dependencies, e.labels)

(***************************************************************************)
(* The engine.  self is the record of the fields of DebugMetrics; every    *)
(* method is an operator from self (and its arguments) to the new self.    *)
(* The field panicked of the record is not a field of the struct: it is    *)
(* TRUE in the value a method yields when the call unwound part-way.       *)
(***************************************************************************)
Self == [rules |-> rules, counts |-> counts, labels |-> labels,
         events |-> events, drop_print |-> drop_print, config |-> config,
         panicked |-> panicked]

new(cfg) == [rules |-> EmptyMap, counts |-> EmptyMap, labels |-> EmptyMap,
             events |-> <<>>, drop_print |-> {}, config |-> cfg,
             panicked |-> FALSE]

\* Value::Metric / Value::Label as an Option: a sequence of length 0 or 1.
get_metric_or_label(self, key) ==
    IF key \in DOMAIN self.counts
    THEN <<[kind |-> "Metric", v |-> self.counts[key]]>>
    ELSE IF key \in DOMAIN self.labels
    THEN <<[kind |-> "Label", v |-> self.labels[key]]>>
    ELSE <<>>

\* One pass of the inner loop over counts for one pattern.
RECURSIVE ScanCounts(_, _, _, _)
ScanCounts(patt, ks, cts, acc) ==
    IF ks = <<>> \/ acc.panic THEN acc
    ELSE LET k  == Head(ks)
             re == Regex_new(patt)
             nx == IF ~re.ok THEN [acc EXCEPT !.panic = TRUE]
                   ELSE IF k \notin acc.found /\ is_match(re, k)
                   THEN [acc EXCEPT !.found = @ \cup {k},
                                    !.count_ret = Insert(@, k, cts[k])]
                   ELSE acc
         IN ScanCounts(patt, Tail(ks), cts, nx)

\* One pass of the inner loop over labels for one pattern.
RECURSIVE ScanLabels(_, _, _, _)
ScanLabels(patt, ks, lbls, acc) ==
    IF ks = <<>> \/ acc.panic THEN acc
    ELSE LET k  == Head(ks)
             re == Regex_new(patt)
             nx == IF ~re.ok THEN [acc EXCEPT !.panic = TRUE]
                   ELSE IF k \notin acc.found /\ is_match(re, k)
                   THEN [acc EXCEPT !.found = @ \cup {k},
                                    !.label_ret = Insert(@, k, lbls[k])]
                   ELSE acc
         IN ScanLabels(patt, Tail(ks), lbls, nx)

RECURSIVE ScanPatterns(_, _, _, _)
ScanPatterns(patts, cts, lbls, acc) ==
    IF patts = <<>> \/ acc.panic THEN acc
    ELSE LET a1 == ScanCounts(Head(patts), Iter(DOMAIN cts), cts, acc)
             a2 == ScanLabels(Head(patts), Iter(DOMAIN lbls), lbls, a1)
         IN ScanPatterns(Tail(patts), cts, lbls, a2)

\* Returns [count_ret, label_ret] (and the local found); panic is TRUE when
\* Regex::new(patt).unwrap() failed on the way.
matching_rules_for_regexes(regexes, cts, lbls) ==
    ScanPatterns(Iter(regexes), cts, lbls,
                 [found |-> {}, count_ret |-> EmptyMap, label_ret |-> EmptyMap,
                  panic |-> FALSE])

\* What a maybe_* step yields in place of an event when it unwound.
Unwound == <<[type |-> "Unwound"]>>

maybe_find_matching_rule(self, event, metric_or_label) ==
    IF metric_or_label \in DOMAIN self.rules
    THEN LET c == get_metric_or_label(self, metric_or_label)
             Found(m) ==
                 IF m.panic THEN Unwound
                 ELSE IF c = <<>> THEN event
                 ELSE IF c[1].kind = "Metric"
                 THEN <<MetricChange(metric_or_label, c[1].v,
                                     m.count_ret, m.label_ret)>>
                 ELSE <<LabelChange(metric_or_label, c[1].v,
                                    m.count_ret, m.label_ret)>>
         IN Found(matching_rules_for_regexes(self.rules[metric_or_label],
                                             self.counts, self.labels))
    ELSE event


\* Variant: the fallback does not consult process_all_events.
maybe_include_all_events_unconditional(self, event, metric_or_label) ==
    IF event = <<>>
    THEN LET c == get_metric_or_label(self, metric_or_label)
         IN IF c = <<>> THEN event
            ELSE IF c[1].kind = "Metric"
            THEN <<MetricChange(metric_or_label, c[1].v, EmptyMap, EmptyMap)>>
            ELSE <<LabelChange(metric_or_label, c[1].v, EmptyMap, EmptyMap)>>
    ELSE event

maybe_include_all_events_metrics(self, event, metric_or_label) ==
    IF event = <<>> /\ self.config.process_all_events
                   /\ metric_or_label \in DOMAIN self.counts
    THEN <<MetricChange(metric_or_label, self.counts[metric_or_label],
                        EmptyMap, EmptyMap)>>
    ELSE event

maybe_include_all_events_wired(self, event, metric_or_label) ==
    IF event = <<>> /\ self.config.process_all_events
    THEN LET c == get_metric_or_label(self, metric_or_label)
         IN IF c = <<>> THEN event
            ELSE IF c[1].kind = "Metric"
            THEN <<MetricChange(metric_or_label, c[1].v, EmptyMap, EmptyMap)>>
            ELSE IF self.config.record_label_changes
            THEN <<LabelChange(metric_or_label, c[1].v, EmptyMap, EmptyMap)>>
            ELSE event
    ELSE event

maybe_include_all_events(self, event, metric_or_label) ==
    IF event = <<>> /\ self.config.process_all_events
    THEN LET c == get_metric_or_label(self, metric_or_label)
         IN IF c = <<>> THEN event
            ELSE IF c[1].kind = "Metric"
            THEN <<MetricChange(metric_or_label, c[1].v, EmptyMap, EmptyMap)>>
            ELSE <<LabelChange(metric_or_label, c[1].v, EmptyMap, EmptyMap)>>
    ELSE event

InsertAll_first(m, ks, src) ==
    IF ks = <<>> THEN m ELSE Insert(m, Head(ks), src[Head(ks)])

\* labels.insert(label_key, label_value) for every entry of self.labels.
RECURSIVE InsertAll(_, _, _)
InsertAll(m, ks, src) ==
    IF ks = <<>> THEN m
    ELSE InsertAll(Insert(m, Head(ks), src[Head(ks)]), Tail(ks), src)


\* Variant: the label table is never merged into the event.
maybe_include_all_labels_with_event_off(self, event) == event

maybe_include_all_labels_with_event(self, event) ==
    IF self.config.all_labels_every_event /\ event # <<>>
    THEN <<[event[1] EXCEPT !.labels = InsertAll(@, Iter(DOMAIN self.labels), self.labels)]>>
    ELSE event

\* The three steps every mutation runs for the key it mutated.
BuildEvent(self, key) ==
    LET Rest(e1) ==
            IF e1 = Unwound THEN Unwound
            ELSE maybe_include_all_labels_with_event(
                     self, maybe_include_all_events(self, e1, key))
    IN Rest(maybe_find_matching_rule(self, <<>>, key))


\* Variant: the new event is put in front of the log.
push_front(evs, e) == <<e>> \o evs

\* Vec::push
push(evs, e) == Append(evs, e)

\* The body of every method below is under #[cfg(debug_assertions)].
add_recording_rule_eager(self, metric, additional) ==
    IF \E patt \in additional : ~Regex_new(patt).ok
    THEN [self EXCEPT !.panicked = TRUE]
    ELSE [self EXCEPT !.rules = Insert(self.rules, metric, additional)]

add_recording_rule_replace(self, metric, additional) ==
    [self EXCEPT !.rules = Insert(@, metric, additional)]

add_recording_rule(self, metric, additional) ==
    IF ~debug_assertions THEN self
    ELSE IF metric \in DOMAIN self.rules
    THEN [self EXCEPT !.rules[metric] = @ \cup additional]
    ELSE [self EXCEPT !.rules = Insert(@, metric, additional)]

add_drop_hook(self, key) ==
    IF ~debug_assertions THEN self
    ELSE [self EXCEPT !.drop_print = @ \cup {key}]


\* Variant: the cascade event is built before the label is written.
IncLabelStep_stale(self, key, entry) ==
    LET label_key   == entry[1]
        label_value == entry[2]
    IN IF label_key = "" THEN self
       ELSE LET s1    == [self EXCEPT !.labels = Insert(@, label_key, label_value)]
                event == BuildEvent(self, label_key)
            IN IF event # <<>>
               THEN [s1 EXCEPT !.events = push(@, promote_to_cascade(event[1], key))]
               ELSE s1

\* One iteration of the label loop of inc.
IncLabelStep(self, key, entry) ==
    LET label_key   == entry[1]
        label_value == entry[2]
    IN IF label_key = "" THEN self
       ELSE LET s1 == [self EXCEPT !.labels = Insert(@, label_key, label_value)]
                Record(event) ==
                    IF event = Unwound THEN [s1 EXCEPT !.panicked = TRUE]
                    ELSE IF event # <<>>
                    THEN [s1 EXCEPT !.events =
                                        push(@, promote_to_cascade(event[1], key))]
                    ELSE s1
            IN Record(BuildEvent(s1, label_key))

RECURSIVE IncLabelLoop(_, _, _)
IncLabelLoop(self, key, ls) ==
    IF ls = <<>> \/ self.panicked THEN self
    ELSE IncLabelLoop(IncLabelStep(self, key, Head(ls)), key, Tail(ls))

\* The primary event of a mutation of key.
RecordPrimary(self, key) ==
    LET Record(event) ==
            IF event = Unwound THEN [self EXCEPT !.panicked = TRUE]
            ELSE IF event # <<>> THEN [self EXCEPT !.events = push(@, event[1])]
            ELSE self
    IN IF self.panicked THEN self ELSE Record(BuildEvent(self, key))



\* Variant: the primary event is recorded before the label loop runs.
inc_primary_first(self, key, ls) ==
    LET old == IF key \in DOMAIN self.counts THEN self.counts[key] ELSE 0
        s1  == [self EXCEPT !.counts = Insert(@, key, old + 1)]
        s2  == RecordPrimary(s1, key)
    IN IncLabelLoop(s2, key, ls)

\* Variant: the counter is assigned 1 instead of being incremented.
inc_reset(self, key, ls) ==
    LET s1  == [self EXCEPT !.counts = Insert(@, key, 1)]
        s2  == IncLabelLoop(s1, key, ls)
    IN RecordPrimary(s2, key)

\* Variant: the primary event is built before the counter is incremented.
inc_snapshot_first(self, key, ls) ==
    LET old   == IF key \in DOMAIN self.counts THEN self.counts[key] ELSE 0
        s2    == IncLabelLoop(self, key, ls)
        event == BuildEvent(s2, key)
        s3    == [s2 EXCEPT !.counts = Insert(@, key, old + 1)]
    IN IF event # <<>> THEN [s3 EXCEPT !.events = push(@, event[1])] ELSE s3

\* Variant: the counter is incremented after the label loop has run.
inc_counter_after_labels(self, key, ls) ==
    LET old == IF key \in DOMAIN self.counts THEN self.counts[key] ELSE 0
        s1  == IncLabelLoop(self, key, ls)
        s2  == [s1 EXCEPT !.counts = Insert(@, key, old + 1)]
    IN IF ~debug_assertions THEN self ELSE RecordPrimary(s2, key)

inc(self, key, ls) ==
    LET old == IF key \in DOMAIN self.counts THEN self.counts[key] ELSE 0
        s1  == [self EXCEPT !.counts = Insert(@, key, old + 1)]
        s2  == IncLabelLoop(s1, key, ls)
    IN IF ~debug_assertions THEN self ELSE RecordPrimary(s2, key)

\* One iteration of the label loop of set.
SetLabelStep(self, key, entry) ==
    LET label_key   == entry[1]
        label_value == entry[2]
        s1 == [self EXCEPT !.labels = Insert(@, label_key, label_value)]
        Record(event) ==
            IF event = Unwound THEN [s1 EXCEPT !.panicked = TRUE]
            ELSE IF event # <<>>
            THEN [s1 EXCEPT !.events = push(@, promote_to_cascade(event[1], key))]
            ELSE s1
    IN Record(BuildEvent(s1, label_key))

RECURSIVE SetLabelLoop(_, _, _)
SetLabelLoop(self, key, ls) ==
    IF ls = <<>> \/ self.panicked THEN self
    ELSE SetLabelLoop(SetLabelStep(self, key, Head(ls)), key, Tail(ls))

set(self, key, value, ls) ==
    LET s1 == [self EXCEPT !.counts = Insert(@, key, value)]
        s2 == SetLabelLoop(s1, key, ls)
    IN IF ~debug_assertions THEN self ELSE RecordPrimary(s2, key)

set_label_always(self, key, value) ==
    RecordPrimary([self EXCEPT !.labels = Insert(self.labels, key, value)], key)

set_label(self, key, value) ==
    LET s1 == [self EXCEPT !.labels = Insert(@, key, value)]
    IN IF ~debug_assertions THEN self ELSE RecordPrimary(s1, key)


\* Variant: cascade events are matched on their own key only.
events_for_key_no_cause(self, key) ==
    SelectSeq(self.events, LAMBDA e :
        CASE e.type = "MetricChange"        -> e.metric = key
          [] e.type = "LabelChange"         -> e.label = key
          [] e.type = "CascadeMetricChange" -> e.metric = key
          [] e.type = "CascadeLabelChange"  -> e.label = key)

events_for_key(self, key) ==
    IF ~debug_assertions THEN <<>>
    ELSE SelectSeq(self.events, LAMBDA e :
        CASE e.type = "MetricChange"        -> e.metric = key
          [] e.type = "LabelChange"         -> e.label = key
          [] e.type = "CascadeMetricChange" -> e.metric = key \/ e.cause = key
          [] e.type = "CascadeLabelChange"  -> e.label = key \/ e.cause = key)

(***************************************************************************)
(* Drop-Flush.  A written line "{key}[ (caused by {cause})]: {value} ::    *)
(* {all_deps:?}" is the record of its parts; cause is a sequence of length *)
(* 0 or 1.  Numbers are rendered by to_string / Display.                   *)
(***************************************************************************)
RECURSIVE InsertStringified(_, _, _)
InsertStringified(m, ks, src) ==
    IF ks = <<>> THEN m
    ELSE InsertStringified(Insert(m, Head(ks), ToString(src[Head(ks)])), Tail(ks), src)

\* all_deps: the dependencies, stringified, then the labels over them.
AllDeps(e) ==
    InsertAll(InsertStringified(EmptyMap, Iter(DOMAIN e.dependencies), e.dependencies),
              Iter(DOMAIN e.labels), e.labels)


\* Variant: a cascade event is also written when its cause is in drop_print.
DropLine_by_cause(self, e) ==
    CASE e.type = "MetricChange" ->
            IF self.config.process_all_events \/ e.metric \in self.drop_print
            THEN <<[key |-> e.metric, cause |-> <<>>, value |-> ToString(e.count),
                    all_deps |-> AllDeps(e)]>>
            ELSE <<>>
      [] e.type = "LabelChange" ->
            IF self.config.process_all_events \/ e.label \in self.drop_print
            THEN <<[key |-> e.label, cause |-> <<>>, value |-> e.value,
                    all_deps |-> AllDeps(e)]>>
            ELSE <<>>
      [] e.type = "CascadeMetricChange" ->
            IF self.config.process_all_events \/ e.metric \in self.drop_print
                  \/ e.cause \in self.drop_print
            THEN <<[key |-> e.metric, cause |-> <<e.cause>>, value |-> ToString(e.count),
                    all_deps |-> AllDeps(e)]>>
            ELSE <<>>
      [] e.type = "CascadeLabelChange" ->
            IF self.config.process_all_events \/ e.label \in self.drop_print
                  \/ e.cause \in self.drop_print
            THEN <<[key |-> e.label, cause |-> <<e.cause>>, value |-> e.value,
                    all_deps |-> AllDeps(e)]>>
            ELSE <<>>

\* The line written for e, as a sequence of length 0 or 1.
DropLine(self, e) ==
    CASE e.type = "MetricChange" ->
            IF self.config.process_all_events \/ e.metric \in self.drop_print
            THEN <<[key |-> e.metric, cause |-> <<>>, value |-> ToString(e.count),
                    all_deps |-> AllDeps(e)]>>
            ELSE <<>>
      [] e.type = "LabelChange" ->
            IF self.config.process_all_events \/ e.label \in self.drop_print
            THEN <<[key |-> e.label, cause |-> <<>>, value |-> e.value,
                    all_deps |-> AllDeps(e)]>>
            ELSE <<>>
      [] e.type = "CascadeMetricChange" ->
            IF self.config.process_all_events \/ e.metric \in self.drop_print
            THEN <<[key |-> e.metric, cause |-> <<e.cause>>, value |-> ToString(e.count),
                    all_deps |-> AllDeps(e)]>>
            ELSE <<>>
      [] e.type = "CascadeLabelChange" ->
            IF self.config.process_all_events \/ e.label \in self.drop_print
            THEN <<[key |-> e.label, cause |-> <<e.cause>>, value |-> e.value,
                    all_deps |-> AllDeps(e)]>>
            ELSE <<>>

RECURSIVE DropLines(_, _)
DropLines(self, evs) ==
    IF evs = <<>> THEN <<>>
    ELSE DropLine(self, Head(evs)) \o DropLines(self, Tail(evs))

\* The lines drop writes to output_writer, in order.
drop(self) == DropLines(self, self.events)

(***************************************************************************)
(* The cloneable DebugMetrics of src/src/lib.rs.  Its four fields are each *)
(* an Arc<Mutex<_>>, so every clone reaches the same rules, counts, events *)
(* and drop_print; an event is the tuple (key, count, dependencies); Drop  *)
(* is implemented for the handle, not for the shared fields.  A method     *)
(* holds its locks from its first statement to its end (rules, counts,     *)
(* events in that order; Drop events, drop_print), so the methods are      *)
(* taken as single steps.  poisoned: a method panicked holding rules,      *)
(* counts and events, and lock().unwrap() on them fails from then on.      *)
(***************************************************************************)
lib_new ==
    [rules |-> EmptyMap, counts |-> EmptyMap, events |-> <<>>, drop_print |-> {},
     poisoned |-> FALSE, handles |-> 1, stdout |-> <<>>, ret |-> <<>>, calls |-> 0]

\* fn matching_rules_for_regexes(regexes, counts) of lib.rs: the scan of the
\* engine without a label table.
lib_matching_rules_for_regexes(regexes, cts) ==
    matching_rules_for_regexes(regexes, cts, EmptyMap)

lib_add_recording_rule(self, metric, additional) ==
    IF ~debug_assertions \/ self.poisoned THEN self
    ELSE IF metric \in DOMAIN self.rules
    THEN [self EXCEPT !.rules[metric] = @ \cup additional]
    ELSE [self EXCEPT !.rules = Insert(@, metric, additional)]

lib_add_drop_hook(self, key) ==
    IF ~debug_assertions THEN self
    ELSE [self EXCEPT !.drop_print = @ \cup {key}]

\* The tail of inc and set: the event of key, if key has a rule.
lib_record(self, key) ==
    LET Record(m) ==
            IF m.panic THEN [self EXCEPT !.poisoned = TRUE]
            ELSE [self EXCEPT !.events =
                      Append(@, [key |-> key, count |-> self.counts[key],
                                 deps |-> m.count_ret])]
    IN IF key \in DOMAIN self.rules
       THEN Record(lib_matching_rules_for_regexes(self.rules[key], self.counts))
       ELSE self

lib_inc(self, key) ==
    IF ~debug_assertions \/ self.poisoned THEN self
    ELSE LET old == IF key \in DOMAIN self.counts THEN self.counts[key] ELSE 0
         IN lib_record([self EXCEPT !.counts = Insert(@, key, old + 1)], key)

lib_set(self, key, value) ==
    IF ~debug_assertions \/ self.poisoned THEN self
    ELSE lib_record([self EXCEPT !.counts = Insert(@, key, value)], key)

lib_events_for_key(self, key) ==
    IF ~debug_assertions \/ self.poisoned THEN <<>>
    ELSE SelectSeq(self.events, LAMBDA e : e.key = key)

\* println!("{event_key}: {count} :: {event_deps:?}")
lib_println(e) ==
    [event_key |-> e.key, count |-> ToString(e.count), event_deps |-> e.deps]

RECURSIVE lib_drop_lines(_, _)
lib_drop_lines(self, evs) ==
    IF evs = <<>> THEN <<>>
    ELSE (IF Head(evs).key \in self.drop_print THEN <<lib_println(Head(evs))>>
          ELSE <<>>) \o lib_drop_lines(self, Tail(evs))

\* Variant: only the last handle to go writes.
lib_drop_last_only(self) ==
    IF self.poisoned \/ self.handles > 1 THEN <<>>
    ELSE lib_drop_lines(self, self.events)

\* Drop for DebugMetrics (lib.rs): what the handle going out of scope writes.
lib_drop(self) ==
    IF self.poisoned THEN <<>> ELSE lib_drop_lines(self, self.events)

(***************************************************************************)
(* The state machine: one engine, its owner's calls, and its teardown.     *)
(***************************************************************************)
Threads == {1, 2}

\* The owner's DropHook is hook 0; the DropHookSafe of thread t is hook t.
Hooks == {0} \cup Threads

NoHook == [state |-> "none", call |-> <<>>, runs |-> 0, ticket |-> 0]

\* What a thread is calling: the call, how far its body has come, the label
\* entries still to go, whether the closure of the thread's hook makes it,
\* and the position of the call in the trace.
NoCall == [call |-> <<>>, stage |-> "done", rest |-> <<>>, hook |-> FALSE,
           ticket |-> 0]

\* A call of the trait, as a record, applied to the engine.
ApplyCall(self, c) ==
    CASE c.op = "add_recording_rule" -> add_recording_rule(self, c.key, c.patterns)
      [] c.op = "add_drop_hook"      -> add_drop_hook(self, c.key)
      [] c.op = "inc"                -> inc(self, c.key, c.labels)
      [] c.op = "set"                -> set(self, c.key, c.value, c.labels)
      [] c.op = "set_label"          -> set_label(self, c.key, c.value)
      [] c.op = "events_for_key"     -> self

\* The other engine of SpecTwin: the same construction, record_label_changes
\* the other way round.
Flip(cfg) == [cfg EXCEPT !.record_label_changes = ~@]

InitFields ==
    /\ config \in DebugMetricsConfig
    /\ rules = new(config).rules
    /\ counts = new(config).counts
    /\ labels = new(config).labels
    /\ events = new(config).events
    /\ drop_print = new(config).drop_print
    /\ panicked = FALSE
    /\ output = <<>>
    /\ flushed = FALSE
    /\ alive = TRUE
    /\ ret = <<>>
    /\ trace = <<>>
    /\ owner = <<>>
    /\ flushes = 0
    /\ last = "none"
    /\ hook = [h \in Hooks |-> NoHook]
    /\ twin = [eng |-> new(Flip(config)), output |-> <<>>]
    /\ lib = lib_new
    /\ shared = FALSE
    /\ handles = [t \in Threads |-> 0]
    /\ lock = 0
    /\ poisoned = FALSE
    /\ pc = [t \in Threads |-> [at |-> "idle", unwinding |-> FALSE]]
    /\ cur = [t \in Threads |-> NoCall]
    /\ aborted = FALSE

\* A build with debug assertions (the one the tests run).
Init == debug_assertions = TRUE /\ InitFields

\* A build without them.
InitRelease == debug_assertions = FALSE /\ InitFields

\* The fields of the engine after a call that left it as s.
Becomes(s) ==
    /\ rules' = s.rules
    /\ counts' = s.counts
    /\ labels' = s.labels
    /\ events' = s.events
    /\ drop_print' = s.drop_print
    /\ config' = s.config
    /\ panicked' = s.panicked

\* owner, once the call at position ticket of the trace has appended its
\* events.
Owns(evs, ticket) == owner \o [i \in 1..(Len(evs) - Len(owner)) |-> ticket]

\* The single owner holds the engine, and no DropHook has borrowed it.
Owned ==
    /\ alive
    /\ ~panicked
    /\ ~shared
    /\ hook[0].state # "armed"

\* A call c on the engine the single owner holds, which leaves it as s.
Call(s, c) ==
    /\ Owned
    /\ Becomes(s)
    /\ ret' = IF c.op = "events_for_key" THEN events_for_key(Self, c.key) ELSE ret
    /\ trace' = Append(trace, c)
    /\ owner' = Owns(events', Len(trace'))
    /\ UNCHANGED <<output, flushed, alive, debug_assertions, flushes, last,
                   hook, safeVars>>

\* A call of the single owner.
OwnerCall(s, c) == Call(s, c) /\ UNCHANGED <<twin, lib>>

\* The same call on both engines.
TwinCall(c) ==
    /\ Call(ApplyCall(Self, c), c)
    /\ twin' = [twin EXCEPT !.eng = ApplyCall(@, c)]
    /\ UNCHANGED lib

AddRecordingRule(metric, additional) ==
    OwnerCall(add_recording_rule(Self, metric, additional),
              [op |-> "add_recording_rule", key |-> metric, patterns |-> additional])

AddDropHook(key) ==
    OwnerCall(add_drop_hook(Self, key), [op |-> "add_drop_hook", key |-> key])

Inc(key, ls) ==
    OwnerCall(inc(Self, key, ls), [op |-> "inc", key |-> key, labels |-> ls])

Set(key, value, ls) ==
    OwnerCall(set(Self, key, value, ls),
              [op |-> "set", key |-> key, value |-> value, labels |-> ls])

SetLabel(key, value) ==
    OwnerCall(set_label(Self, key, value),
              [op |-> "set_label", key |-> key, value |-> value])

EventsForKey_draining(key) ==
    OwnerCall([Self EXCEPT !.events = SelectSeq(@, LAMBDA e : FALSE)],
              [op |-> "events_for_key", key |-> key])

EventsForKey(key) == OwnerCall(Self, [op |-> "events_for_key", key |-> key])

\* The Drop-Flush itself: the lines are written, the sink is flushed.
Flush(by) ==
    /\ output' = output \o drop(Self)
    /\ flushed' = TRUE
    /\ flushes' = flushes + 1
    /\ last' = by
    /\ alive' = FALSE

\* The engine the single owner holds goes out of scope.
Teardown ==
    /\ alive
    /\ ~shared
    /\ hook[0].state # "armed"
    /\ Flush("owner")
    /\ UNCHANGED <<config, rules, counts, labels, events, drop_print, ret, trace,
                   debug_assertions, panicked, owner, hook, safeVars>>

\* The single owner's engine goes out of scope (also when the owner unwinds).
Drop == Teardown /\ UNCHANGED <<twin, lib>>

\* Both engines go out of scope.
TwinDrop ==
    /\ Teardown
    /\ twin' = [twin EXCEPT !.output = @ \o drop(twin.eng)]
    /\ UNCHANGED lib

(***************************************************************************)
(* Scoped hooks and the shared variant.  DebugMetricsSafe is an            *)
(* Arc<Mutex<DM>>: every method locks, unwraps the lock result and calls   *)
(* the engine's method; the engine is dropped with the last clone.  The    *)
(* body of a call is taken in steps here: the counter, then one label      *)
(* entry per step, then the primary event.                                 *)
(***************************************************************************)
Armed(c) == [state |-> "armed", call |-> c, runs |-> 0, ticket |-> 0]

\* with_drop_hook on the owned engine: the hook borrows it mutably.
WithDropHook(c) ==
    /\ Owned
    /\ hook[0].state = "none"
    /\ hook' = [hook EXCEPT ![0] = Armed(c)]
    /\ UNCHANGED <<engineVars, twin, lib, safeVars>>

\* Drop for DropHook: the closure is called with the borrowed engine.
DropHookDrop ==
    /\ alive
    /\ ~shared
    /\ hook[0].state = "armed"
    /\ Becomes(ApplyCall(Self, hook[0].call))
    /\ trace' = Append(trace, hook[0].call)
    /\ owner' = Owns(events', Len(trace'))
    /\ hook' = [hook EXCEPT ![0].state = "gone", ![0].runs = @ + 1,
                            ![0].ticket = Len(trace')]
    /\ UNCHANGED <<output, flushed, alive, ret, debug_assertions, flushes, last,
                   twin, lib, safeVars>>

\* safe(self): the engine moves into an Arc<Mutex<_>>; the owner's thread
\* holds the first handle.
Safe ==
    /\ Owned
    /\ shared' = TRUE
    /\ handles' = [handles EXCEPT ![1] = 1]
    /\ UNCHANGED <<engineVars, hook, twin, lib, lock, poisoned, pc, cur, aborted>>

\* The clone a DropHookSafe holds lives until the hook's fields are dropped,
\* after the body of its Drop.
HookHolds_until_drop(h) == hook[h].state = "armed"

HookHolds(h) == hook[h].state \in {"armed", "running", "exiting"}

\* The strong count of the Arc.
ArcCount == handles[1] + handles[2] + Cardinality({t \in Threads : HookHolds(t)})

\* Arc's drop: the inner value is dropped with the last clone only.
LastHandle_any == TRUE

LastHandle == ArcCount = 1

\* Mutex::lock blocks until no other thread holds the lock.
LockFree_always == TRUE

LockFree == lock = 0

\* lock().unwrap(): a poisoned lock gives Err, unwrap panics.
lock_unwrap_recovers == FALSE

lock_unwrap_fails == poisoned

\* A clone of the Arc goes out of scope.
Release(by) ==
    IF LastHandle THEN Flush(by)
    ELSE UNCHANGED <<output, flushed, flushes, last, alive>>

\* Thread t is between two calls.
Running(t) ==
    /\ shared
    /\ ~aborted
    /\ pc[t].at = "idle"
    /\ hook[t].state \notin {"running", "exiting"}

\* Thread t can use its handle.
Free(t) == Running(t) /\ ~pc[t].unwinding /\ handles[t] = 1

\* clone(): thread t hands a clone to thread u.
Clone(t, u) ==
    /\ Free(t)
    /\ u # t
    /\ handles[u] = 0
    /\ ~pc[u].unwinding
    /\ handles' = [handles EXCEPT ![u] = 1]
    /\ UNCHANGED <<engineVars, hook, twin, lib, shared, lock, poisoned, pc, cur, aborted>>

\* Thread t calls a method of its handle and waits for the lock.
StartCall(t, c) ==
    /\ Free(t)
    /\ pc' = [pc EXCEPT ![t].at = "waiting"]
    /\ cur' = [cur EXCEPT ![t] = [call |-> c, stage |-> "start", rest |-> <<>>,
                                  hook |-> FALSE, ticket |-> 0]]
    /\ UNCHANGED <<engineVars, hook, twin, lib, shared, handles, lock, poisoned, aborted>>

\* with_drop_hook on a handle: the hook holds a clone of it.
WithDropHookSafe(t, c) ==
    /\ Free(t)
    /\ hook[t].state = "none"
    /\ hook' = [hook EXCEPT ![t] = Armed(c)]
    /\ UNCHANGED <<engineVars, twin, lib, safeVars>>

\* Drop for DropHookSafe begins (the scope ends, or the thread unwinds): the
\* closure is called with the hook's clone.
HookDrop(t) ==
    /\ shared
    /\ ~aborted
    /\ pc[t].at = "idle"
    /\ hook[t].state = "armed"
    /\ hook' = [hook EXCEPT ![t].state = "running", ![t].runs = @ + 1]
    /\ pc' = [pc EXCEPT ![t].at = "waiting"]
    /\ cur' = [cur EXCEPT ![t] = [call |-> hook[t].call, stage |-> "start",
                                  rest |-> <<>>, hook |-> TRUE, ticket |-> 0]]
    /\ UNCHANGED <<engineVars, twin, lib, shared, handles, lock, poisoned, aborted>>

\* The thread panics: it unwinds; a hook whose Drop was running drops its
\* fields.  A panic of a thread that is unwinding already aborts the process.
Panics(t) ==
    IF pc[t].unwinding
    THEN aborted' = TRUE /\ UNCHANGED <<pc, hook>>
    ELSE /\ pc' = [pc EXCEPT ![t] = [at |-> "idle", unwinding |-> TRUE]]
         /\ hook' = IF cur[t].hook THEN [hook EXCEPT ![t].state = "exiting"] ELSE hook
         /\ UNCHANGED aborted

\* self.inner.lock().unwrap()
Acquire(t) ==
    /\ shared
    /\ ~aborted
    /\ pc[t].at = "waiting"
    /\ LockFree
    /\ IF lock_unwrap_fails
       THEN /\ Panics(t)
            /\ cur' = [cur EXCEPT ![t] = NoCall]
            /\ UNCHANGED <<lock, trace>>
       ELSE /\ lock' = t
            /\ pc' = [pc EXCEPT ![t].at = "locked"]
            /\ trace' = Append(trace, cur[t].call)
            /\ cur' = [cur EXCEPT ![t].ticket = Len(trace')]
            /\ hook' = IF cur[t].hook THEN [hook EXCEPT ![t].ticket = Len(trace')]
                       ELSE hook
            /\ UNCHANGED aborted
    /\ UNCHANGED <<config, rules, counts, labels, events, drop_print, output,
                   flushed, alive, ret, debug_assertions, panicked, owner,
                   flushes, last, twin, lib, shared, handles, poisoned>>

\* *self.counts.entry(key).or_default() += 1
IncCounter(self, key) ==
    LET old == IF key \in DOMAIN self.counts THEN self.counts[key] ELSE 0
    IN [self EXCEPT !.counts = Insert(@, key, old + 1)]

\* *self.counts.entry(key).or_default() = value
SetCounter(self, key, value) == [self EXCEPT !.counts = Insert(@, key, value)]

\* The next step of the body of the call w on the engine self: the engine
\* after it, whether the body is over, the label entries still to go.
BodyStep(self, w) ==
    LET c == w.call IN
    IF ~debug_assertions THEN [eng |-> self, done |-> TRUE, rest |-> <<>>]
    ELSE IF w.stage = "start"
    THEN CASE c.op = "inc" ->
                [eng |-> IncCounter(self, c.key), done |-> FALSE, rest |-> c.labels]
           [] c.op = "set" ->
                [eng |-> SetCounter(self, c.key, c.value), done |-> FALSE,
                 rest |-> c.labels]
           [] OTHER -> [eng |-> ApplyCall(self, c), done |-> TRUE, rest |-> <<>>]
    ELSE IF w.rest # <<>>
    THEN [eng |-> IF c.op = "inc" THEN IncLabelStep(self, c.key, Head(w.rest))
                  ELSE SetLabelStep(self, c.key, Head(w.rest)),
          done |-> FALSE, rest |-> Tail(w.rest)]
    ELSE [eng |-> RecordPrimary(self, c.key), done |-> TRUE, rest |-> <<>>]

\* The fields of the shared engine after a step that left it as s.
Mutates(s) ==
    /\ rules' = s.rules
    /\ counts' = s.counts
    /\ labels' = s.labels
    /\ events' = s.events
    /\ drop_print' = s.drop_print
    /\ config' = s.config
    /\ UNCHANGED panicked

\* Variant: the guard outlives the method: the lock stays with the thread.
GuardDropped_leaked(t) == t

\* The holder of the lock once the method of thread t returned: the guard is
\* a local of the method and is dropped there, nobody holds the lock.
GuardDropped(t) == 0

\* A step of the body of the call of thread t, which holds the lock.  A panic
\* drops the guard while panicking: the lock is poisoned.
Body(t) ==
    /\ shared
    /\ ~aborted
    /\ pc[t].at = "locked"
    /\ LET Takes(r) ==
               /\ Mutates(r.eng)
               /\ owner' = Owns(r.eng.events, cur[t].ticket)
               /\ IF r.eng.panicked
                  THEN /\ Panics(t)
                       /\ poisoned' = IF pc[t].unwinding THEN poisoned ELSE TRUE
                       /\ lock' = IF pc[t].unwinding THEN lock ELSE 0
                       /\ cur' = [cur EXCEPT ![t] = NoCall]
                  ELSE IF r.done
                  THEN /\ lock' = GuardDropped(t)
                       /\ pc' = [pc EXCEPT ![t].at = "idle"]
                       /\ hook' = IF cur[t].hook
                                  THEN [hook EXCEPT ![t].state = "exiting"]
                                  ELSE hook
                       /\ cur' = [cur EXCEPT ![t] = NoCall]
                       /\ UNCHANGED <<poisoned, aborted>>
                  ELSE /\ cur' = [cur EXCEPT ![t].stage = "labels",
                                             ![t].rest = r.rest]
                       /\ UNCHANGED <<lock, poisoned, pc, hook, aborted>>
       IN Takes(BodyStep(Self, cur[t]))
    /\ ret' = IF cur[t].call.op = "events_for_key"
              THEN events_for_key(Self, cur[t].call.key) ELSE ret
    /\ UNCHANGED <<output, flushed, alive, trace, debug_assertions, flushes, last,
                   twin, lib, shared, handles>>

\* Drop for DropHookSafe is over: the hook's clone is dropped.
HookRelease(t) ==
    /\ shared
    /\ ~aborted
    /\ hook[t].state = "exiting"
    /\ hook' = [hook EXCEPT ![t].state = "gone"]
    /\ Release("hook")
    /\ UNCHANGED <<config, rules, counts, labels, events, drop_print, ret, trace,
                   debug_assertions, panicked, owner, twin, lib, safeVars>>

\* The handle of thread t goes out of scope (also when the thread unwinds).
DropHandle(t) ==
    /\ Running(t)
    /\ handles[t] = 1
    /\ handles' = [handles EXCEPT ![t] = 0]
    /\ Release("handle")
    /\ UNCHANGED <<config, rules, counts, labels, events, drop_print, ret, trace,
                   debug_assertions, panicked, owner, hook, twin, lib,
                   shared, lock, poisoned, pc, cur, aborted>>

(***************************************************************************)
(* Inputs.                                                                 *)
(***************************************************************************)
(***************************************************************************)
(* The cloneable DebugMetrics of lib.rs: calls through any live handle,    *)
(* clones, and handles going out of scope.                                 *)
(***************************************************************************)
\* A method is called through one of the live handles and leaves the shared
\* fields as s.
LibCall(s) ==
    /\ lib.handles >= 1
    /\ lib' = [s EXCEPT !.calls = @ + 1]
    /\ UNCHANGED <<engineVars, hook, twin, safeVars>>

LibAddRecordingRule(metric, additional) ==
    LibCall(lib_add_recording_rule(lib, metric, additional))

LibAddDropHook(key) == LibCall(lib_add_drop_hook(lib, key))

LibInc(key) == LibCall(lib_inc(lib, key))

LibSet(key, value) == LibCall(lib_set(lib, key, value))

LibEventsForKey(key) ==
    LibCall([lib EXCEPT !.ret = lib_events_for_key(lib, key)])

\* #[derive(Clone)]: one more handle on the same four Arcs.
LibClone == LibCall([lib EXCEPT !.handles = @ + 1])

\* A handle goes out of scope.
LibDrop ==
    LibCall([lib EXCEPT !.stdout = @ \o lib_drop(lib), !.handles = @ - 1])

Keys == {"metric", "stage"}
Patterns == {".+", "^s"}
LabelValues == {"zero", "one"}
SetValues == {2}
LabelEntries == {<<"", "zero">>, <<"stage", "one">>, <<"env", "two">>}
LabelLists == UNION {[1..n -> LabelEntries] : n \in 0..MaxLabels}

Next ==
    \/ /\ Len(trace) < MaxOps
       /\ \E key \in Keys, additional \in SUBSET Patterns :
             AddRecordingRule(key, additional)
    \/ /\ Len(trace) < MaxOps
       /\ \E key \in Keys : AddDropHook(key)
    \/ /\ Len(trace) < MaxOps
       /\ \E key \in Keys, ls \in LabelLists : Inc(key, ls)
    \/ /\ Len(trace) < MaxOps
       /\ \E key \in Keys, value \in SetValues, ls \in LabelLists : Set(key, value, ls)
    \/ /\ Len(trace) < MaxOps
       /\ \E key \in Keys, value \in LabelValues : SetLabel(key, value)
    \/ /\ Len(trace) < MaxOps
       /\ \E key \in Keys : EventsForKey(key)
    \/ Drop

Spec == Init /\ [][Next]_vars

\* A second choice of inputs: the calls of the scenarios of the tests, more
\* of them in a row.
DeepRuleCalls == {<<"stage", {".+"}>>, <<"metric", {".+"}>>}
DeepHookKeys == {"stage", "metric"}
DeepLabelCalls == {<<"stage", "zero">>}
DeepIncCalls == {<<"metric", <<>>>>, <<"metric", <<<<"stage", "one">>>>>>}
DeepSetCalls == {<<"metric", 5, <<>>>>, <<"other", 7, <<>>>>}
DeepQueryKeys == {"stage", "metric"}

NextDeep ==
    \/ /\ Len(trace) < MaxOpsDeep
       /\ \E c \in DeepRuleCalls : AddRecordingRule(c[1], c[2])
    \/ /\ Len(trace) < MaxOpsDeep
       /\ \E key \in DeepHookKeys : AddDropHook(key)
    \/ /\ Len(trace) < MaxOpsDeep
       /\ \E c \in DeepIncCalls : Inc(c[1], c[2])
    \/ /\ Len(trace) < MaxOpsDeep
       /\ \E c \in DeepSetCalls : Set(c[1], c[2], c[3])
    \/ /\ Len(trace) < MaxOpsDeep
       /\ \E c \in DeepLabelCalls : SetLabel(c[1], c[2])
    \/ /\ Len(trace) < MaxOpsDeep
       /\ \E key \in DeepQueryKeys : EventsForKey(key)
    \/ Drop

SpecDeep == Init /\ [][NextDeep]_vars

\* The calls of Spec in a build without debug assertions.
SpecRelease == InitRelease /\ [][Next]_vars

\* Two engines whose configurations differ in record_label_changes only,
\* driven by the same calls.
TwinCalls ==
    { [op |-> "add_recording_rule", key |-> "stage", patterns |-> {".+"}],
      [op |-> "add_recording_rule", key |-> "metric", patterns |-> {"^s"}],
      [op |-> "add_drop_hook", key |-> "stage"],
      [op |-> "set_label", key |-> "stage", value |-> "zero"],
      [op |-> "set_label", key |-> "env", value |-> "two"],
      [op |-> "inc", key |-> "metric", labels |-> << <<"stage", "one">> >>],
      [op |-> "set", key |-> "metric", value |-> 5,
       labels |-> << <<"env", "two">>, <<"", "zero">> >>],
      [op |-> "events_for_key", key |-> "stage"] }

NextTwin ==
    \/ /\ Len(trace) < MaxOpsTwin
       /\ \E c \in TwinCalls : TwinCall(c)
    \/ TwinDrop

SpecTwin == Init /\ [][NextTwin]_vars

\* A third choice of inputs: rules that may hold a pattern that does not
\* parse, and mutations of the keys that own them and of other keys.
FaultRuleCalls == {<<"stage", {"("}>>, <<"stage", {".+"}>>, <<"metric", {"(", ".+"}>>}
FaultIncCalls == {<<"metric", <<>>>>, <<"metric", <<<<"stage", "one">>>>>>,
                  <<"other", <<<<"env", "two">>>>>>}
FaultSetCalls == {<<"metric", 5, <<>>>>, <<"other", 7, <<<<"stage", "one">>>>>>}
FaultLabelCalls == {<<"stage", "zero">>, <<"env", "two">>}

NextFault ==
    \/ /\ Len(trace) < MaxOpsFault
       /\ \E c \in FaultRuleCalls : AddRecordingRule(c[1], c[2])
    \/ /\ Len(trace) < MaxOpsFault
       /\ AddDropHook("stage")
    \/ /\ Len(trace) < MaxOpsFault
       /\ \E c \in FaultIncCalls : Inc(c[1], c[2])
    \/ /\ Len(trace) < MaxOpsFault
       /\ \E c \in FaultSetCalls : Set(c[1], c[2], c[3])
    \/ /\ Len(trace) < MaxOpsFault
       /\ \E c \in FaultLabelCalls : SetLabel(c[1], c[2])
    \/ /\ Len(trace) < MaxOpsFault
       /\ EventsForKey("stage")
    \/ Drop

SpecFault == Init /\ [][NextFault]_vars

\* The calls made on an engine that becomes shared, by its owner before and
\* by the threads after; the calls the closures of the hooks make.
SafeRuleCalls == {<<"stage", {".+"}>>, <<"stage", {"("}>>}
SafeCalls ==
    { [op |-> "add_recording_rule", key |-> "metric", patterns |-> {".+"}],
      [op |-> "add_drop_hook", key |-> "stage"],
      [op |-> "inc", key |-> "metric", labels |-> << <<"stage", "one">> >>],
      [op |-> "set", key |-> "other", value |-> 7, labels |-> << <<"env", "two">> >>],
      [op |-> "set_label", key |-> "stage", value |-> "zero"],
      [op |-> "events_for_key", key |-> "metric"] }
HookCalls == { [op |-> "set_label", key |-> "stage", value |-> "last"] }

\* Calls made and calls waiting for the lock.
Pending == Len(trace) + Cardinality({t \in Threads : pc[t].at = "waiting"})

NextSafe ==
    \/ /\ Len(trace) < MaxSafeOps
       /\ \E c \in SafeRuleCalls : AddRecordingRule(c[1], c[2])
    \/ \E c \in HookCalls : WithDropHook(c)
    \/ DropHookDrop
    \/ Safe
    \/ Drop
    \/ \E t, u \in Threads : Clone(t, u)
    \/ /\ Pending < MaxSafeOps
       /\ \E t \in Threads, c \in SafeCalls : StartCall(t, c)
    \/ \E t \in Threads, c \in HookCalls : WithDropHookSafe(t, c)
    \/ \E t \in Threads : HookDrop(t)
    \/ \E t \in Threads : Acquire(t)
    \/ \E t \in Threads : Body(t)
    \/ \E t \in Threads : HookRelease(t)
    \/ \E t \in Threads : DropHandle(t)

\* The two configurations of the tests, and all_labels_every_event alone.
SafeConfigs ==
    {ConfigDefault, ConfigDefaultOn,
     [ConfigDefault EXCEPT !.all_labels_every_event = TRUE]}

InitSafe == Init /\ config \in SafeConfigs

SpecSafe == InitSafe /\ [][NextSafe]_vars

\* The shared engine alone, its threads under a fair scheduler: a thread that
\* can go on does, a thread waiting for the lock gets it once the lock stays
\* free (the calls are finitely many).
FairCalls ==
    { [op |-> "add_recording_rule", key |-> "stage", patterns |-> {"("}],
      [op |-> "inc", key |-> "metric", labels |-> << <<"stage", "one">> >>],
      [op |-> "events_for_key", key |-> "metric"] }

NextFair ==
    \/ Safe
    \/ \E t, u \in Threads : Clone(t, u)
    \/ /\ Pending < MaxFairOps
       /\ \E t \in Threads, c \in FairCalls : StartCall(t, c)
    \/ \E t \in Threads, c \in HookCalls : WithDropHookSafe(t, c)
    \/ \E t \in Threads : HookDrop(t)
    \/ \E t \in Threads : Acquire(t)
    \/ \E t \in Threads : Body(t)
    \/ \E t \in Threads : HookRelease(t)
    \/ \E t \in Threads : DropHandle(t)

InitFair == Init /\ config = ConfigDefaultOn

SpecSafeFair ==
    /\ InitFair
    /\ [][NextFair]_vars
    /\ \A t \in Threads : WF_vars(Acquire(t)) /\ WF_vars(Body(t))

\* The calls made on the DebugMetrics of lib.rs: two rules whose patterns
\* parse, and the keys they are about.
LibRuleCalls == {<<"metric", {".+"}>>, <<"stage", {"^s"}>>}
LibKeys == {"metric", "stage"}

NextLib ==
    \/ /\ lib.calls < MaxOpsLib
       /\ \E c \in LibRuleCalls : LibAddRecordingRule(c[1], c[2])
    \/ /\ lib.calls < MaxOpsLib
       /\ \E key \in LibKeys : LibAddDropHook(key)
    \/ /\ lib.calls < MaxOpsLib
       /\ \E key \in LibKeys : LibInc(key)
    \/ /\ lib.calls < MaxOpsLib
       /\ LibSet("stage", 2)
    \/ /\ lib.calls < MaxOpsLib
       /\ LibEventsForKey("metric")
    \/ /\ lib.calls < MaxOpsLib
       /\ LibClone
    \/ /\ lib.calls < MaxOpsLib
       /\ LibDrop

InitLib == Init /\ config = ConfigDefault

SpecLib == InitLib /\ [][NextLib]_vars

TypeOK ==
    /\ config \in DebugMetricsConfig
    /\ alive \in BOOLEAN
    /\ flushed \in BOOLEAN
    /\ Len(trace) <= MaxOps + MaxOpsDeep + MaxOpsFault + MaxOpsTwin + MaxSafeOps
                     + MaxFairOps
    /\ Len(owner) = Len(events)
    /\ lock \in {0} \cup Threads
    /\ \A t \in Threads : handles[t] \in {0, 1}

(***************************************************************************)
(* Vocabulary of the properties.                                           *)
(***************************************************************************)
AllStrings == {SortedStrings[i] : i \in DOMAIN SortedStrings}

IsCascade(e) == e.type \in {"CascadeMetricChange", "CascadeLabelChange"}

\* The metric or label name of an event (its display key at teardown).
PrimaryKey(e) ==
    IF e.type \in {"MetricChange", "CascadeMetricChange"} THEN e.metric ELSE e.label

IsPrefix(a, b) == Len(a) <= Len(b) /\ SubSeq(b, 1, Len(a)) = a

LastCall == trace[Len(trace)]

IncCall(key, ls) == [op |-> "inc", key |-> key, labels |-> ls]

\* A call was made in this step; it is the last entry of trace'.
Called == Len(trace') = Len(trace) + 1

\* The position of h among the elements of the set of indices H, in order.
Rank(H, h) == Cardinality({x \in H : x <= h})

(***************************************************************************)
(* C1.  With no recording rule registered and process_all_events false,    *)
(* whatever inc and set calls were made, the event log is empty and        *)
(* events_for_key returns the empty sequence for every key.                *)
(***************************************************************************)
C1_NoRuleNoCaptureLogEmpty ==
    (DOMAIN rules = {} /\ ~config.process_all_events)
        => /\ events = <<>>
           /\ \A k \in AllStrings : events_for_key(Self, k) = <<>>

C1_Witness ==
    /\ DOMAIN rules = {}
    /\ ~config.process_all_events
    /\ Len(trace) >= 2
    /\ \E i, j \in DOMAIN trace :
          /\ trace[i].op = "inc" /\ trace[i].labels # <<>>
          /\ trace[j].op = "set" /\ trace[j].labels # <<>>
    /\ DOMAIN counts # {}
    /\ DOMAIN labels # {}

(***************************************************************************)
(* C2.  Scenario A: on a fresh engine with all flags false, after          *)
(* add_recording_rule("stage", [".+"]), set_label("stage", "zero"),        *)
(* inc("metric", [("stage", "one")]) the log is exactly the LabelChange of *)
(* stage = zero (no dependencies, labels {stage: zero}) followed by the    *)
(* CascadeLabelChange of stage = one caused by metric (dependencies        *)
(* {metric: 1}, labels {stage: one}); metric itself has no event.          *)
(***************************************************************************)
ScenarioA ==
    << [op |-> "add_recording_rule", key |-> "stage", patterns |-> {".+"}],
       [op |-> "set_label", key |-> "stage", value |-> "zero"],
       [op |-> "inc", key |-> "metric", labels |-> << <<"stage", "one">> >>] >>

C2_ScenarioA ==
    (config = ConfigDefault /\ trace = ScenarioA)
        => events = << [type |-> "LabelChange", label |-> "stage", value |-> "zero",
                        dependencies |-> EmptyMap, labels |-> ("stage" :> "zero")],
                       [type |-> "CascadeLabelChange", cause |-> "metric",
                        label |-> "stage", value |-> "one",
                        dependencies |-> ("metric" :> 1),
                        labels |-> ("stage" :> "one")] >>

C2_Witness == config = ConfigDefault /\ trace = ScenarioA /\ Len(events) = 2

(***************************************************************************)
(* C3.  Scenario B as stated: with process_all_events true and no rule,    *)
(* after set_label("stage", "zero") and inc("metric", [("stage", "one")])  *)
(* the cascade event of stage has no dependencies and the teardown writes  *)
(* three lines, the third being metric: 1 with the merged map              *)
(* {stage: one}.                                                           *)
(***************************************************************************)
ScenarioB ==
    << [op |-> "set_label", key |-> "stage", value |-> "zero"],
       [op |-> "inc", key |-> "metric", labels |-> << <<"stage", "one">> >>] >>

ScenarioBOutcome ==
    /\ Len(events) = 3
    /\ events[2].type = "CascadeLabelChange"
    /\ events[2].label = "stage"
    /\ events[2].dependencies = EmptyMap
    /\ Len(output) = 3
    /\ output[1].key = "stage" /\ output[1].cause = <<>> /\ output[1].value = "zero"
    /\ output[2].key = "stage" /\ output[2].cause = <<"metric">>
    /\ output[2].value = "one"
    /\ output[3] = [key |-> "metric", cause |-> <<>>, value |-> "1",
                    all_deps |-> ("stage" :> "one")]

C3_ScenarioB_AsStated ==
    (config.process_all_events /\ trace = ScenarioB /\ ~alive) => ScenarioBOutcome

\* C3, amended.  The same, for process_all_events and all_labels_every_event
\* both true: the map {stage: one} of the third line is the label table merged
\* in by all_labels_every_event.
C3_ScenarioB ==
    (config.process_all_events /\ config.all_labels_every_event
        /\ trace = ScenarioB /\ ~alive) => ScenarioBOutcome

C3_Witness ==
    /\ config.process_all_events /\ config.all_labels_every_event
    /\ trace = ScenarioB /\ ~alive /\ Len(output) = 3

(***************************************************************************)
(* C4.  With process_all_events true and no rule for k, on an engine whose *)
(* value store is still empty, inc(k, []) followed by inc(k, []) appends   *)
(* exactly two MetricChange events for k, with counts 1 and 2 in that      *)
(* order, both with empty dependencies and labels.                         *)
(***************************************************************************)
C4_TwoIncs ==
    \A k \in AllStrings :
        LET n == Len(trace) IN
        ( /\ n >= 2
          /\ config.process_all_events
          /\ k \notin DOMAIN rules
          /\ trace[n] = IncCall(k, <<>>)
          /\ trace[n - 1] = IncCall(k, <<>>)
          /\ \A i \in 1..(n - 2) :
                trace[i].op \in {"add_recording_rule", "add_drop_hook",
                                 "events_for_key"} )
        => events = << [type |-> "MetricChange", metric |-> k, count |-> 1,
                        dependencies |-> EmptyMap, labels |-> EmptyMap],
                       [type |-> "MetricChange", metric |-> k, count |-> 2,
                        dependencies |-> EmptyMap, labels |-> EmptyMap] >>

C4_Witness ==
    /\ config.process_all_events
    /\ trace = << IncCall("metric", <<>>), IncCall("metric", <<>>) >>
    /\ Len(events) = 2
    /\ counts["metric"] = 2

(***************************************************************************)
(* C5.  When the rule of "metric" holds the match-everything pattern and   *)
(* the counters "metric" and "other" both exist, inc("metric") appends     *)
(* exactly one event, a MetricChange of metric, whose dependencies hold    *)
(* "other" with its current value and "metric" with its value after the    *)
(* increment.                                                              *)
(***************************************************************************)
C5_IncSnapshotsDependencies ==
    [][ ( /\ Called
          /\ trace'[Len(trace')] = IncCall("metric", <<>>)
          /\ "metric" \in DOMAIN rules
          /\ ".+" \in rules["metric"]
          /\ {"metric", "other"} \subseteq DOMAIN counts )
        => /\ Len(events') = Len(events) + 1
           /\ IsPrefix(events, events')
           /\ LET e == events'[Len(events')] IN
              /\ e.type = "MetricChange"
              /\ e.metric = "metric"
              /\ e.count = counts["metric"] + 1
              /\ {"metric", "other"} \subseteq DOMAIN e.dependencies
              /\ e.dependencies["other"] = counts["other"]
              /\ e.dependencies["metric"] = counts["metric"] + 1 ]_vars

C5_Witness ==
    /\ trace # <<>>
    /\ LastCall = IncCall("metric", <<>>)
    /\ "metric" \in DOMAIN rules
    /\ ".+" \in rules["metric"]
    /\ "other" \in DOMAIN counts
    /\ counts["metric"] = 6
    /\ events # <<>>
    /\ events[Len(events)].dependencies = ("metric" :> 6 @@ "other" :> 7)

(***************************************************************************)
(* C6.  A label entry with an empty key in the label list of inc or set    *)
(* never creates an entry of the label store and never appends a cascade   *)
(* event.  (No call of the model passes "" as its own key, so an entry ""  *)
(* can only come from a label list.)                                       *)
(***************************************************************************)
C6_EmptyLabelKeyIgnored ==
    /\ "" \notin DOMAIN labels
    /\ \A i \in DOMAIN events : IsCascade(events[i]) => PrimaryKey(events[i]) # ""

(***************************************************************************)
(* C7.  events_for_key(key) returns, in log order and with nothing left    *)
(* out or added, the events whose metric or label name is key together     *)
(* with the cascade events whose cause is key.                             *)
(***************************************************************************)
Hits(key) ==
    {i \in DOMAIN events :
        \/ PrimaryKey(events[i]) = key
        \/ IsCascade(events[i]) /\ events[i].cause = key}

C7_EventsForKeyExact ==
    (trace # <<>> /\ LastCall.op = "events_for_key")
        => LET H == Hits(LastCall.key) IN
           /\ Len(ret) = Cardinality(H)
           /\ \A h \in H : ret[Rank(H, h)] = events[h]

\* The query of a counter key returned a cascade label event the counter
\* caused, then the counter's own event; the log holds other events too.
C7_Witness ==
    /\ trace # <<>>
    /\ LastCall.op = "events_for_key"
    /\ Len(ret) >= 2
    /\ Len(ret) < Len(events)
    /\ ret[1].type = "CascadeLabelChange"
    /\ ret[1].cause = LastCall.key
    /\ ret[1].label # LastCall.key
    /\ ret[Len(ret)].type = "MetricChange"
    /\ ret[Len(ret)].metric = LastCall.key

(***************************************************************************)
(* C8.  The event log is append-only: in every step the log before is a    *)
(* prefix of the log after, so no recorded event is removed, moved or      *)
(* altered, whatever happens to counters, labels and rules later.          *)
(***************************************************************************)
C8_LogAppendOnly == [][IsPrefix(events, events')]_vars

\* Two events; the first still shows the label value it was recorded with,
\* which the store has replaced since.
C8_Witness ==
    /\ Len(events) >= 2
    /\ "stage" \in DOMAIN events[1].labels
    /\ "stage" \in DOMAIN labels
    /\ events[1].labels["stage"] # labels["stage"]

(***************************************************************************)
(* C9.  The events one inc or set call appends are, in this order: the     *)
(* cascade events of its label entries, in the order the entries were      *)
(* passed (each caused by the call's key; every entry with a non-empty key *)
(* that has a rule or is captured by process_all_events has one), then the *)
(* primary event of the counter key, last.                                 *)
(***************************************************************************)
C9_CascadesThenPrimary ==
    [][ (Called /\ trace'[Len(trace')].op \in {"inc", "set"})
        => LET call == trace'[Len(trace')]
               added == SubSeq(events', Len(events) + 1, Len(events'))
               nc == Cardinality({i \in DOMAIN added : IsCascade(added[i])})
               due == {j \in DOMAIN call.labels :
                          /\ call.labels[j][1] # ""
                          /\ \/ config.process_all_events
                             \/ call.labels[j][1] \in DOMAIN rules}
           IN /\ IsPrefix(events, events')
              /\ \A i \in 1..nc : IsCascade(added[i]) /\ added[i].cause = call.key
              /\ Len(added) \in {nc, nc + 1}
              /\ Len(added) = nc + 1
                    => /\ ~IsCascade(added[nc + 1])
                       /\ PrimaryKey(added[nc + 1]) = call.key
              /\ \E f \in [1..nc -> DOMAIN call.labels] :
                    /\ \A a, b \in 1..nc : a < b => f[a] < f[b]
                    /\ due \subseteq {f[i] : i \in 1..nc}
                    /\ \A i \in 1..nc :
                          /\ PrimaryKey(added[i]) = call.labels[f[i]][1]
                          /\ added[i].type = "CascadeLabelChange"
                                => added[i].value = call.labels[f[i]][2] ]_vars

\* An inc with two different labels appended their two cascade events in the
\* order passed and then its own event.
C9_Witness ==
    /\ trace # <<>>
    /\ LastCall.op = "inc"
    /\ Len(LastCall.labels) = 2
    /\ LastCall.labels[1][1] # LastCall.labels[2][1]
    /\ Len(events) >= 3
    /\ LET n == Len(events) IN
       /\ events[n - 2].type = "CascadeLabelChange"
       /\ events[n - 2].label = LastCall.labels[1][1]
       /\ events[n - 1].type = "CascadeLabelChange"
       /\ events[n - 1].label = LastCall.labels[2][1]
       /\ events[n].type = "MetricChange"
       /\ events[n].metric = LastCall.key

(***************************************************************************)
(* C10.  At teardown an event is written iff process_all_events is true or *)
(* drop_print holds the event's own metric / label name (not its cause);   *)
(* the lines are in log order, one per event.                              *)
(***************************************************************************)
Shown ==
    {i \in DOMAIN events :
        config.process_all_events \/ PrimaryKey(events[i]) \in drop_print}

C10_TeardownFilter ==
    ~alive
        => /\ Len(output) = Cardinality(Shown)
           /\ \A h \in Shown :
                 LET line == output[Rank(Shown, h)]
                     e == events[h]
                 IN /\ line.key = PrimaryKey(e)
                    /\ line.cause = (IF IsCascade(e) THEN <<e.cause>> ELSE <<>>)
                    /\ e.type \in {"LabelChange", "CascadeLabelChange"}
                          => line.value = e.value
                    /\ e.type \in {"MetricChange", "CascadeMetricChange"}
                          => line.value = ToString(e.count)

\* After teardown: a cascade event whose cause is in drop_print and whose own
\* label is not was left out, while another event was written.
C10_Witness ==
    /\ ~alive
    /\ ~config.process_all_events
    /\ Len(output) >= 1
    /\ \E i \in DOMAIN events :
          /\ IsCascade(events[i])
          /\ events[i].cause \in drop_print
          /\ PrimaryKey(events[i]) \notin drop_print

(***************************************************************************)
(* C13.  Every event appended for a label entry of the label list of an    *)
(* inc or set call is a cascade variant whose cause is the counter key of  *)
(* the call; the events set_label appends and the primary event of inc and *)
(* set are never cascade variants.                                         *)
(***************************************************************************)
Added == SubSeq(events', Len(events) + 1, Len(events'))

\* How many events a call appends for its own key (none or one).
OwnEvents(call) ==
    IF config.process_all_events \/ call.key \in DOMAIN rules THEN 1 ELSE 0

C13_LabelEntryEventsAreCascades ==
    [][ Called
        => LET call == trace'[Len(trace')]
               own == OwnEvents(call)
           IN /\ call.op \in {"inc", "set"}
                    => /\ Len(Added) >= own
                       /\ \A i \in DOMAIN Added :
                             IF i <= Len(Added) - own
                             THEN IsCascade(Added[i]) /\ Added[i].cause = call.key
                             ELSE ~IsCascade(Added[i])
              /\ call.op = "set_label"
                    => \A i \in DOMAIN Added : ~IsCascade(Added[i]) ]_vars

\* A set_label event, then a set whose label entry gave a cascade event
\* caused by the counter, then the counter's own event.
C13_Witness ==
    /\ Len(trace) = 2
    /\ trace[1].op = "set_label"
    /\ trace[2].op = "set"
    /\ Len(trace[2].labels) = 1
    /\ Len(events) = 3
    /\ ~IsCascade(events[1])
    /\ IsCascade(events[2])
    /\ events[2].cause = trace[2].key
    /\ ~IsCascade(events[3])

(***************************************************************************)
(* C14.  With process_all_events true every mutation is recorded: an inc,  *)
(* set or set_label call appends exactly one primary event, for its key,   *)
(* and for every non-empty label key as many cascade events as the label   *)
(* list has entries of that key, with or without a rule; an event whose    *)
(* key has no rule, all_labels_every_event being false, has empty          *)
(* dependencies and labels.                                                *)
(***************************************************************************)
C14_CaptureAllRecordsEveryMutation ==
    [][ (Called /\ config.process_all_events
            /\ trace'[Len(trace')].op \in {"inc", "set", "set_label"})
        => LET call == trace'[Len(trace')]
               ls == IF call.op = "set_label" THEN <<>> ELSE call.labels
               prim == {i \in DOMAIN Added : ~IsCascade(Added[i])}
           IN /\ IsPrefix(events, events')
              /\ prim = {Len(Added)}
              /\ PrimaryKey(Added[Len(Added)]) = call.key
              /\ \A k \in AllStrings \ {""} :
                    Cardinality({i \in DOMAIN Added :
                                    IsCascade(Added[i]) /\ PrimaryKey(Added[i]) = k})
                      = Cardinality({j \in DOMAIN ls : ls[j][1] = k})
              /\ \A i \in DOMAIN Added :
                    (PrimaryKey(Added[i]) \notin DOMAIN rules
                        /\ ~config.all_labels_every_event)
                      => /\ Added[i].dependencies = EmptyMap
                         /\ Added[i].labels = EmptyMap ]_vars

\* No rule at all: a set_label and an inc with two entries of the same label
\* gave four events, all with empty maps.
C14_Witness ==
    /\ config.process_all_events
    /\ ~config.all_labels_every_event
    /\ DOMAIN rules = {}
    /\ Len(trace) = 2
    /\ trace[1].op = "set_label"
    /\ trace[2].op = "inc"
    /\ Len(trace[2].labels) = 2
    /\ trace[2].labels[1][1] = "stage"
    /\ trace[2].labels[2][1] = "stage"
    /\ Len(events) = 4
    /\ \A i \in DOMAIN events :
          events[i].dependencies = EmptyMap /\ events[i].labels = EmptyMap

(***************************************************************************)
(* C16.  add_recording_rule with a pattern that does not parse succeeds;   *)
(* the failure is fatal (nothing is called after it) and happens at the    *)
(* first later mutation of the key that owns the rule: an inc, set or      *)
(* set_label call fails iff its own key or the key of one of its label     *)
(* entries has a rule holding such a pattern.  add_drop_hook and           *)
(* events_for_key never fail.                                              *)
(***************************************************************************)
OwnsBadPattern(k) ==
    k \in DOMAIN rules /\ \E patt \in rules[k] : ~Regex_new(patt).ok

\* The keys a call mutates (inc passes over label entries with an empty key).
Mutated(call) ==
    CASE call.op = "inc" ->
            {call.key} \cup ({call.labels[j][1] : j \in DOMAIN call.labels} \ {""})
      [] call.op = "set" ->
            {call.key} \cup {call.labels[j][1] : j \in DOMAIN call.labels}
      [] call.op = "set_label" -> {call.key}
      [] OTHER -> {}

C16_BadPatternFatalAtFirstUse ==
    [][ /\ panicked => ~Called
        /\ Called
            => LET call == trace'[Len(trace')]
               IN panicked' <=> \E k \in Mutated(call) : OwnsBadPattern(k) ]_vars

\* The rule was registered, a mutation of another key went through, and the
\* inc whose label entry is the rule's key failed.
C16_Witness ==
    /\ panicked
    /\ Len(trace) = 3
    /\ trace[1].op = "add_recording_rule"
    /\ trace[1].key = "stage"
    /\ trace[1].patterns = {"("}
    /\ trace[2].op = "set_label"
    /\ trace[2].key = "env"
    /\ trace[3].op = "inc"
    /\ trace[3].key = "metric"
    /\ trace[3].labels = << <<"stage", "one">> >>
    /\ "metric" \in DOMAIN counts

(***************************************************************************)
(* C19.  In a build without debug assertions, whatever calls were made,    *)
(* the rule table, the drop-print set, the counters, the labels and the    *)
(* event log are empty, events_for_key returns the empty sequence for      *)
(* every key (and did so when it was called), and the teardown writes no   *)
(* line.                                                                   *)
(***************************************************************************)
C19_DisabledBuildInert ==
    ~debug_assertions
        => /\ DOMAIN rules = {}
           /\ drop_print = {}
           /\ DOMAIN counts = {}
           /\ DOMAIN labels = {}
           /\ events = <<>>
           /\ ret = <<>>
           /\ \A k \in AllStrings : events_for_key(Self, k) = <<>>
           /\ output = <<>>

\* A set_label and an inc with labels, capture-all on, then the teardown.
C19_Witness ==
    /\ ~debug_assertions
    /\ config.process_all_events
    /\ Len(trace) = 2
    /\ trace[1].op = "set_label"
    /\ trace[2].op = "inc"
    /\ trace[2].labels # <<>>
    /\ ~alive
    /\ flushed

NoHandleLeft ==
    /\ \A t \in Threads : handles[t] = 0
    /\ \A t \in Threads : hook[t].state \in {"none", "gone"}

C11_FlushOnceOnLastHandle ==
    /\ flushes <= 1
    /\ shared => (flushes = 1 <=> NoHandleLeft)
    /\ flushes = 0 => (output = <<>> /\ ~flushed /\ alive)
    /\ flushes = 1 => (flushed /\ ~alive /\ output = drop(Self))

\* The hook of thread 2 has dropped its clone, which wrote nothing; the last
\* one was a handle; the log holds events, none of them was to be written, and
\* the sink was flushed.
C11_Witness ==
    /\ shared
    /\ hook[2].state = "gone"
    /\ flushes = 1
    /\ last = "handle"
    /\ events # <<>>
    /\ output = <<>>
    /\ flushed

(***************************************************************************)
(* C12.  On the shared variant the log is in the order in which the calls  *)
(* acquired the lock (the order of the trace): the events of a call that   *)
(* locked earlier all precede those of a call that locked later, so the    *)
(* events of one call are contiguous.                                      *)
(***************************************************************************)
C12_LogInLockOrder ==
    \A i, j \in DOMAIN owner : i < j => owner[i] <= owner[j]

\* Thread 2 is inside an inc, its cascade event appended and its primary
\* event still to come, while thread 1 waits for the lock with a set.
C12_Witness ==
    /\ pc[2].at = "locked"
    /\ pc[1].at = "waiting"
    /\ cur[2].call.op = "inc"
    /\ cur[2].stage = "labels"
    /\ cur[2].rest = <<>>
    /\ cur[1].call.op = "set"
    /\ Len(events) >= 2
    /\ owner[Len(owner)] = cur[2].ticket
    /\ owner[1] < cur[2].ticket
    /\ IsCascade(events[Len(events)])

(***************************************************************************)
(* C15.  With all_labels_every_event true, the labels map of an event is   *)
(* the whole label table as it is when the event is appended (after the    *)
(* label of the step was stored), for events by rule and by capture-all,   *)
(* primary and cascade; with the flag but neither a rule nor capture-all   *)
(* the log stays empty.                                                    *)
(***************************************************************************)
C15_AllLabelsEveryEvent ==
    [][ config.all_labels_every_event
        => /\ Len(events') > Len(events)
                => events'[Len(events')].labels = labels'
           /\ (~config.process_all_events /\ DOMAIN rules' = {})
                => events' = <<>> ]_vars

\* Inside a set: its cascade event holds both labels of the table; the event
\* of an earlier call holds the table of its time.
C15_Witness ==
    /\ config.all_labels_every_event
    /\ \E t \in Threads : pc[t].at = "locked" /\ cur[t].stage = "labels"
    /\ Len(events) >= 2
    /\ IsCascade(events[Len(events)])
    /\ Cardinality(DOMAIN labels) = 2
    /\ events[Len(events)].labels = labels
    /\ events[1].labels # labels
    /\ events[1].labels # EmptyMap

(***************************************************************************)
(* C17.  Once a caller has panicked holding the lock, the lock is poisoned *)
(* for good and no call gets through any more: the stores, the log, the    *)
(* value last returned and the trace of calls made stay as they are, and a *)
(* thread that was waiting for the lock and moves on has panicked.         *)
(***************************************************************************)
C17_PoisonedLockFailsEveryCall ==
    [][ poisoned
        => /\ poisoned'
           /\ UNCHANGED <<rules, counts, labels, events, drop_print, ret, trace>>
           /\ \A t \in Threads :
                 /\ pc'[t].at # "locked"
                 /\ (pc[t].at = "waiting" /\ pc'[t] # pc[t])
                       => pc'[t] = [at |-> "idle", unwinding |-> TRUE] ]_vars

\* One thread panicked in a call (a pattern that does not parse); the call
\* of the other then failed at the lock.  Neither has a hook.
C17_Witness ==
    /\ poisoned
    /\ ~aborted
    /\ pc[1].unwinding
    /\ pc[2].unwinding
    /\ hook[1].state = "none"
    /\ hook[2].state = "none"

(***************************************************************************)
(* C18.  The closure of a scoped hook (DropHook, DropHookSafe) is called   *)
(* exactly once, when the hook goes out of scope, and before the engine's  *)
(* Drop-Flush: when the flush has run no hook is still armed or running,   *)
(* and what was written is the whole log, the events of the closures       *)
(* included, also when the hook held the last clone.                       *)
(***************************************************************************)
C18_HookRunsOnceBeforeFlush ==
    /\ \A h \in Hooks :
          /\ hook[h].runs <= 1
          /\ hook[h].state \in {"none", "armed"} => hook[h].runs = 0
          /\ hook[h].state \in {"running", "exiting", "gone"} => hook[h].runs = 1
    /\ flushes > 0
          => /\ \A h \in Hooks : hook[h].state \in {"none", "gone"}
             /\ output = drop(Self)

\* The owner's DropHook ran before the engine was shared; the DropHookSafe of
\* a thread held the last clone, and the event of its closure is the last
\* line written.
C18_Witness ==
    /\ hook[0].state = "gone"
    /\ hook[0].runs = 1
    /\ shared
    /\ flushes = 1
    /\ last = "hook"
    /\ \E t \in Threads :
          /\ hook[t].state = "gone"
          /\ hook[t].ticket > 0
          /\ events # <<>>
          /\ owner[Len(owner)] = hook[t].ticket
          /\ output # <<>>
          /\ output[Len(output)].key = "stage"
          /\ output[Len(output)].value = "last"

(***************************************************************************)
(* C21.  In every reachable state no key is both in the counter store and  *)
(* in the label store.                                                     *)
(***************************************************************************)
C21_NoKeyInBothStores == DOMAIN counts \cap DOMAIN labels = {}

(***************************************************************************)
(* C22.  events_for_key is a pure read: the call changes no counter,       *)
(* label, rule, drop-print entry or event, and a second call with the same *)
(* key right after the first returns the same sequence.                    *)
(***************************************************************************)
C22_EventsForKeyPureRead ==
    [][ (Called /\ trace'[Len(trace')].op = "events_for_key")
        => /\ UNCHANGED <<counts, labels, rules, drop_print, events>>
           /\ (trace # <<>> /\ LastCall = trace'[Len(trace')]) => ret' = ret ]_vars

\* Two queries of the same key in a row, after events of that key and of
\* another were recorded.
C22_Witness ==
    /\ Len(trace) >= 4
    /\ LastCall.op = "events_for_key"
    /\ trace[Len(trace) - 1] = LastCall
    /\ ret # <<>>
    /\ Len(ret) < Len(events)

(***************************************************************************)
(* C23.  The registries only grow.  add_recording_rule(key, patterns)      *)
(* makes the rule set of key the union of its former set and patterns and  *)
(* leaves the rules of other keys alone; add_drop_hook adds its key to the *)
(* drop-print set and nothing else; neither changes counters, labels or    *)
(* the log; no step removes a pattern, a rule or a drop-print key.         *)
(***************************************************************************)
RulesOf(r, k) == IF k \in DOMAIN r THEN r[k] ELSE {}

C23_RegistriesAdditive ==
    [][ /\ DOMAIN rules \subseteq DOMAIN rules'
        /\ \A k \in DOMAIN rules : rules[k] \subseteq rules'[k]
        /\ drop_print \subseteq drop_print'
        /\ Called
            => LET call == trace'[Len(trace')] IN
               /\ call.op = "add_recording_rule"
                     => /\ DOMAIN rules' = DOMAIN rules \cup {call.key}
                        /\ rules'[call.key] = RulesOf(rules, call.key) \cup call.patterns
                        /\ \A k \in DOMAIN rules \ {call.key} : rules'[k] = rules[k]
                        /\ UNCHANGED <<drop_print, counts, labels, events>>
               /\ call.op = "add_drop_hook"
                     => /\ drop_print' = drop_print \cup {call.key}
                        /\ UNCHANGED <<rules, counts, labels, events>> ]_vars

\* Two registrations for the same key, with different patterns: the rule
\* holds both.
C23_Witness ==
    /\ Len(trace) = 2
    /\ trace[1].op = "add_recording_rule"
    /\ trace[2].op = "add_recording_rule"
    /\ trace[1].key = trace[2].key
    /\ trace[1].patterns = {".+"}
    /\ trace[2].patterns = {"^s"}
    /\ rules[trace[1].key] = {".+", "^s"}

(***************************************************************************)
(* C25.  The kind and the value of an event follow the kind of mutation:   *)
(* what set_label appends is a LabelChange of the string written; what a   *)
(* label entry of inc or set appends is a CascadeLabelChange of the string *)
(* of that entry; the own event of inc or set is a MetricChange of the new *)
(* value of the counter.  No CascadeMetricChange is ever in the log.       *)
(***************************************************************************)
C25_EventKindFollowsMutation ==
    [][ Called
        => LET call == trace'[Len(trace')] IN
           \A i \in DOMAIN Added :
              /\ Added[i].type # "CascadeMetricChange"
              /\ call.op = "set_label"
                    => /\ Added[i].type = "LabelChange"
                       /\ Added[i].label = call.key
                       /\ Added[i].value = call.value
              /\ call.op \in {"inc", "set"}
                    => IF IsCascade(Added[i])
                       THEN /\ Added[i].type = "CascadeLabelChange"
                            /\ \E j \in DOMAIN call.labels :
                                  call.labels[j] = <<Added[i].label, Added[i].value>>
                       ELSE /\ Added[i].type = "MetricChange"
                            /\ Added[i].metric = call.key
                            /\ Added[i].count = counts'[call.key] ]_vars


(***************************************************************************)
(* C24.  all_labels_every_event being false, the event a mutation appends  *)
(* for its own key, when that key has a rule, is built from the rule: its  *)
(* dependencies are exactly the tracked counters whose key is matched by   *)
(* at least one pattern of the rule, with their current values, its labels *)
(* exactly the tracked labels matched by at least one pattern, with their  *)
(* current values, and no key is in both maps.  The event is appended      *)
(* even when the patterns match no tracked key; both maps are then empty.  *)
(***************************************************************************)
\* The keys of the map m that at least one pattern of patts matches.
Matched(patts, m) ==
    {k \in DOMAIN m : \E patt \in patts : is_match(Regex_new(patt), k)}

C24_RuleLookupCaptures ==
    [][ (Called /\ ~config.all_labels_every_event
            /\ trace'[Len(trace')].op \in {"inc", "set", "set_label"}
            /\ trace'[Len(trace')].key \in DOMAIN rules)
        => LET call == trace'[Len(trace')]
               patts == rules[call.key]
           IN /\ Added # <<>>
              /\ LET e == Added[Len(Added)]
                 IN /\ PrimaryKey(e) = call.key
                    /\ e.dependencies =
                          [k \in Matched(patts, counts') |-> counts'[k]]
                    /\ e.labels =
                          [k \in Matched(patts, labels') |-> labels'[k]]
                    /\ DOMAIN e.dependencies \cap DOMAIN e.labels = {} ]_vars

(***************************************************************************)
(* C26.  Within one inc or set call the counter is written first and the   *)
(* label entries are then written and recorded one at a time.  With        *)
(* process_all_events and all_labels_every_event (every entry is recorded  *)
(* with the label table of its moment) and a label list without empty      *)
(* keys: the cascade event of entry i carries the label table as it was    *)
(* before the call with entries 1..i written, so entries i+1..n are still  *)
(* at their earlier value or absent, and, when the rule of its label       *)
(* matches the counter, the counter's new value; the primary event carries *)
(* the table with every entry written.                                     *)
(***************************************************************************)
\* The label table m after the entries ls were written, in order.
RECURSIVE ApplyEntries(_, _)
ApplyEntries(m, ls) ==
    IF ls = <<>> THEN m
    ELSE ApplyEntries(Insert(m, Head(ls)[1], Head(ls)[2]), Tail(ls))

C26_LabelsAppliedOneAtATime ==
    [][ (Called /\ config.process_all_events /\ config.all_labels_every_event
            /\ trace'[Len(trace')].op \in {"inc", "set"}
            /\ \A j \in DOMAIN trace'[Len(trace')].labels :
                  trace'[Len(trace')].labels[j][1] # "")
        => LET call == trace'[Len(trace')]
               ls == call.labels
               n == Len(ls)
               old == IF call.key \in DOMAIN counts THEN counts[call.key] ELSE 0
           IN /\ Len(Added) = n + 1
              /\ counts' = Insert(counts, call.key,
                                  IF call.op = "inc" THEN old + 1 ELSE call.value)
              /\ labels' = ApplyEntries(labels, ls)
              /\ \A i \in 1..n :
                    /\ IsCascade(Added[i])
                    /\ PrimaryKey(Added[i]) = ls[i][1]
                    /\ Added[i].labels = ApplyEntries(labels, SubSeq(ls, 1, i))
                    /\ (/\ ls[i][1] \in DOMAIN rules
                        /\ call.key \in Matched(rules[ls[i][1]], counts'))
                          => /\ call.key \in DOMAIN Added[i].dependencies
                             /\ Added[i].dependencies[call.key] = counts'[call.key]
              /\ ~IsCascade(Added[n + 1])
              /\ Added[n + 1].labels = labels' ]_vars

\* stage was zero before an inc that writes env and then stage: the cascade
\* event of env still has stage at zero and the one of stage has it at one.
C26_Witness ==
    /\ config.process_all_events
    /\ config.all_labels_every_event
    /\ Len(trace) = 2
    /\ trace[1] = [op |-> "set_label", key |-> "stage", value |-> "zero"]
    /\ trace[2] = IncCall("metric", <<<<"env", "two">>, <<"stage", "one">>>>)
    /\ Len(events) = 4
    /\ events[2].labels = [k \in {"env", "stage"} |->
                              IF k = "env" THEN "two" ELSE "zero"]
    /\ events[3].labels = [k \in {"env", "stage"} |->
                              IF k = "env" THEN "two" ELSE "one"]
    /\ events[4].labels = events[3].labels

(***************************************************************************)
(* C27.  On the shared engine a thread holds the lock exactly while it is  *)
(* in the body of a method: a thread between two calls, or waiting, holds  *)
(* nothing, so the lock is never held across calls and no thread waits     *)
(* for it while holding it.  Under a fair scheduler every call a thread    *)
(* started, the calls of the closures of DropHookSafe included, comes to   *)
(* its end: the thread is between two calls again (the method returned,    *)
(* or its unwrap panicked, C16 and C17) or the process aborted.            *)
(***************************************************************************)
C27_EveryCallEnds ==
    /\ [](\A t \in Threads : (lock = t) <=> (pc[t].at = "locked" /\ ~aborted))
    /\ \A t \in Threads :
          (pc[t].at \in {"waiting", "locked"}) ~> (pc[t].at = "idle" \/ aborted)

\* Thread 1 waits for the lock while thread 2 holds it in the body of the
\* call its hook's closure made.
C27_Witness ==
    /\ pc[1].at = "waiting"
    /\ pc[2].at = "locked"
    /\ lock = 2
    /\ cur[2].hook
    /\ handles = <<1, 1>>

(***************************************************************************)
(* C28.  Every handle of the cloneable DebugMetrics of lib.rs that goes    *)
(* out of scope writes, in log order, one line for every event recorded    *)
(* so far whose key is in the drop-print set, the last handle or not: an   *)
(* event is written once per handle dropped after it was recorded, and a   *)
(* handle dropped early writes the events recorded until then only.        *)
(* Nothing else writes, and the drop leaves the shared fields alone.       *)
(***************************************************************************)
C28_EveryCloneDropPrints ==
    [][ IF lib'.handles = lib.handles - 1
        THEN /\ lib'.stdout =
                   lib.stdout \o
                   [i \in 1..Cardinality({j \in DOMAIN lib.events :
                                             lib.events[j].key \in lib.drop_print})
                      |-> LET shown == {j \in DOMAIN lib.events :
                                           lib.events[j].key \in lib.drop_print}
                              j == CHOOSE x \in shown :
                                      Cardinality({y \in shown : y <= x}) = i
                          IN lib_println(lib.events[j])]
             /\ lib'.events = lib.events
             /\ lib'.drop_print = lib.drop_print
        ELSE lib'.stdout = lib.stdout ]_vars

\* Two events of stage; one handle went after the first, the other after the
\* second: the first event was written twice, the second once.
C28_Witness ==
    /\ lib.handles = 0
    /\ Len(lib.events) = 2
    /\ lib.events[1].key = "stage"
    /\ lib.events[2].key = "stage"
    /\ "stage" \in lib.drop_print
    /\ lib.stdout = <<lib_println(lib.events[1]), lib_println(lib.events[1]),
                      lib_println(lib.events[2])>>

====
